---- MODULE Spec2Model ----
(***************************************************************************)
(* Model of the racing line generator: the geometry model (RacingLine,     *)
(* Sector), the vehicle model (Car), the two-pass lap time calculator and  *)
(* the evolutionary strategy that searches weight vectors.                 *)
(*                                                                         *)
(* Floating point values are fixed-point integers:                         *)
(*   weights           tenths            (1.0 is One)                      *)
(*   coordinates       decimetres        (vertices are <<x, y>> pairs)     *)
(*   velocities        decimetres/second                                   *)
(*   accelerations     centimetres/second^2                                *)
(*   forces            newtons,  power in watts,  mass in kilograms        *)
(*   times             milliseconds                                        *)
(* Square roots are integer square roots (rounded down), divisions round   *)
(* down.  A Python exception is a result record whose status names it.     *)
(***************************************************************************)
EXTENDS Integers, Sequences, FiniteSets, TLC

VARIABLES
    pc,             \* position of the operation under way
    arg,            \* input of the pure operation under way (line, weights, ...)
    res,            \* result of the pure operation under way
    cfg,            \* constructor arguments of the EvolutionaryStrategy
    population,     \* EvolutionaryStrategy.population: sequence of Candidates
    generation,     \* loop variable of EvolutionaryStrategy.run
    best,           \* best_candidate of EvolutionaryStrategy.run
    error,          \* exception that ended the operation: [type, at], or NoError
    next_id,        \* identity given to the next Candidate object
    sims,           \* per candidate id: number of lap time simulations run for it
    pre_selection,  \* population at the entry of the last perform_selection
    probabilities,  \* probabilities computed by the last perform_selection
    threads,        \* per thread evaluating a candidate: position and candidate
    figure,         \* pyplot's current figure: the lines plotted since the last clf
    disk,           \* contents of the file velocity_graph.png
    cma             \* attributes CMAEvolutionaryStrategy.__init__ adds

vars == << pc, arg, res, cfg, population, generation, best, error, next_id,
           sims, pre_selection, probabilities, threads, figure, disk, cma >>

esvars == << cfg, population, generation, best, error, next_id, sims,
             pre_selection, probabilities >>

fnvars == << arg, res >>

iovars == << threads, figure, disk >>

----------------------------------------------------------------------------
(* Fixed-point scale and program constants *)

\* 1.0 as a weight (tenths)
One == 10

\* math.inf as a radius
Inf == -1

\* None as a lap time (Candidate.lap_time before it is scored)
None == -1

\* AIR_DENSITY = 1.19 kg/m^3, in hundredths
AIR_DENSITY == 119

\* GRAV_ACCELERATION = 9.8 m/s^2, in tenths
GRAV_ACCELERATION == 98

----------------------------------------------------------------------------
(* Arithmetic helpers *)

Min(a, b) == IF a < b THEN a ELSE b

Max(a, b) == IF a > b THEN a ELSE b

RECURSIVE ISqrtIter(_, _, _)
ISqrtIter(n, lo, hi) ==
    IF lo >= hi THEN lo
    ELSE LET mid == (lo + hi + 1) \div 2
         IN  IF mid * mid <= n THEN ISqrtIter(n, mid, hi)
                               ELSE ISqrtIter(n, lo, mid - 1)

\* x ** (1.0 / 2.0) for x >= 0, rounded down
ISqrt(n) == ISqrtIter(n, 0, Min(n, 46340))

RECURSIVE SumSeq(_)
SumSeq(s) == IF s = << >> THEN 0 ELSE Head(s) + SumSeq(Tail(s))

Range(s) == { s[i] : i \in 1..Len(s) }

\* [x] * n
Repeat(x, n) == [i \in 1..n |-> x]

RECURSIVE Flatten(_)
Flatten(ss) == IF ss = << >> THEN << >> ELSE Head(ss) \o Flatten(Tail(ss))

\* len(range(0, n, step))
RangeCount(n, step) == (n + step - 1) \div step

----------------------------------------------------------------------------
(* utils.py *)

\* clamp without the upper limit: max(value, min_value)
clamp_NoUpper(value, min_value, max_value) == Max(value, min_value)

\* clamp: max(min(value, max_value), min_value)
clamp(value, min_value, max_value) == Max(Min(value, max_value), min_value)

----------------------------------------------------------------------------
(* Vectors (mathutils.Vector), two coordinates *)

VSub(p, q) == << p[1] - q[1], p[2] - q[2] >>

VAdd(p, q) == << p[1] + q[1], p[2] + q[2] >>

\* vector * weight, weight in tenths
VScale(p, w) == << (p[1] * w) \div One, (p[2] * w) \div One >>

\* squared length of a vector
VLen2(p) == p[1] * p[1] + p[2] * p[2]

\* Vector.length
VLength(p) == ISqrt(VLen2(p))

----------------------------------------------------------------------------
(* racing_line.py: Sector *)

Sector(vertices) ==
    [vertices |-> vertices, start |-> vertices[1], mid |-> vertices[2],
     end |-> vertices[3]]

(* Sector.radius.  With a2, b2, c2 the squared side lengths, cos_angle is    *)
(* k / (2 b c) for k = c2 + b2 - a2.  The angle is 0 or pi exactly when      *)
(* cos_angle is clamped to 1 or -1, that is when k^2 >= 4 b2 c2; otherwise   *)
(* sin(pi - angle)^2 = 1 - cos_angle^2 = (4 b2 c2 - k^2) / (4 b2 c2) and     *)
(* radius^2 = a2 / (4 sin^2) = a2 b2 c2 / (4 b2 c2 - k^2).                   *)
(* The result is [status, value]: value is Inf or the radius in decimetres;  *)
(* status is "ZeroDivisionError" when b or c is zero (2 * b * c = 0).        *)
radius(sector) ==
    LET a2 == VLen2(VSub(sector.end, sector.start))
        b2 == VLen2(VSub(sector.end, sector.mid))
        c2 == VLen2(VSub(sector.mid, sector.start))
        k  == c2 + b2 - a2
        d  == 4 * b2 * c2 - k * k
    IN  IF b2 = 0 \/ c2 = 0 THEN [status |-> "ZeroDivisionError", value |-> 0]
        ELSE IF d <= 0 THEN [status |-> "ok", value |-> Inf]
        ELSE [status |-> "ok", value |-> ISqrt((a2 * b2 * c2) \div d)]

(* Sector.length: walks the vertices from vertices[0], adding the distance   *)
(* to the previous vertex.                                                   *)
RECURSIVE PathLength(_, _)
PathLength(vertices, prev_vert) ==
    IF vertices = << >> THEN 0
    ELSE VLength(VSub(Head(vertices), prev_vert))
         + PathLength(Tail(vertices), Head(vertices))

sector_length(sector) ==
    IF sector.vertices = << >> THEN 0
    ELSE PathLength(sector.vertices, sector.vertices[1])

----------------------------------------------------------------------------
(* racing_line.py: RacingLine.  A racing line is its sequence of vertices.  *)

(* RacingLine.generate_from_weights: the loop runs over the left limit's    *)
(* vertices; r_verts[idx] and weights[idx] raise IndexError past their end. *)
generate_from_weights(weights, l_verts, r_verts) ==
    IF \E idx \in 1..Len(l_verts) : idx > Len(r_verts) \/ idx > Len(weights)
    THEN [status |-> "IndexError", vertices |-> << >>]
    ELSE [status |-> "ok",
          vertices |->
            [idx \in 1..Len(l_verts) |->
                LET t_vec  == VSub(r_verts[idx], l_verts[idx])
                    weight == clamp(weights[idx], 0, One)
                IN  VAdd(l_verts[idx], VScale(t_vec, weight))]]

(* Vertex indices (0-based, as in the source) of the sector get_sector(idx) *)
(* builds for a line of n vertices.  idx % 0 raises ZeroDivisionError when  *)
(* int(n / 2) is 0; vertices[start_idx] cannot be out of range otherwise.   *)
sector_indices(n, idx) ==
    LET half == n \div 2
    IN  IF idx >= half /\ half = 0
        THEN [status |-> "ZeroDivisionError", idxs |-> << >>]
        ELSE LET i         == IF idx >= half THEN idx % half ELSE idx
                 start_idx == i * 2
                 mid_idx   == (start_idx + 1) % n
                 end_idx   == (start_idx + 2) % n
             IN  [status |-> "ok", idxs |-> << start_idx, mid_idx, end_idx >>]

\* RacingLine.get_sector
get_sector(vertices, idx) ==
    LET si == sector_indices(Len(vertices), idx)
    IN  IF si.status # "ok" THEN [status |-> si.status, sector |-> << >>]
        ELSE [status |-> "ok",
              sector |-> Sector(<< vertices[si.idxs[1] + 1],
                                   vertices[si.idxs[2] + 1],
                                   vertices[si.idxs[3] + 1] >>)]

(* RacingLine.sectors: one get_sector call per step of range(0, n, 2), idx  *)
(* counting up from 0.                                                       *)
sectors(vertices) ==
    IF vertices = << >> THEN [status |-> "ok", sectors |-> << >>]
    ELSE LET count == RangeCount(Len(vertices), 2)
             got   == [i \in 1..count |-> get_sector(vertices, i - 1)]
         IN  IF \E i \in 1..count : got[i].status # "ok"
             THEN [status |-> "ZeroDivisionError", sectors |-> << >>]
             ELSE [status |-> "ok", sectors |-> [i \in 1..count |-> got[i].sector]]

----------------------------------------------------------------------------
(* car.py: Car.  A car is a record of the constructor's arguments.          *)

(* Car(): the defaults of Car.__init__, in the model's units *)
DefaultCar ==
    [max_velocity      |-> 1000,       \* 100.0 m/s
     max_acceleration  |-> 1550,       \* 15.5 m/s^2
     friction          |-> 16,         \* 1.6
     mass              |-> 740,        \* 740.0 kg
     drag_coefficient  |-> 10,         \* 1.0
     frontal_area      |-> 15,         \* 1.5 m^2
     base_engine_power |-> 100000,     \* 100000.0 W
     max_engine_power  |-> 800000]     \* 800000.0 W

\* Car.get_engine_power; velocity bands at 10, 40, 70 and 90 m/s
get_engine_power(car, velocity) ==
    LET diff == car.max_engine_power - car.base_engine_power
    IN  IF velocity >= 0 /\ velocity < 100
            THEN car.base_engine_power + (diff * 2) \div 10
        ELSE IF velocity >= 100 /\ velocity < 400
            THEN car.base_engine_power + (diff * 5) \div 10
        ELSE IF velocity >= 400 /\ velocity < 700
            THEN car.base_engine_power + (diff * 7) \div 10
        ELSE IF velocity >= 700 /\ velocity < 900
            THEN car.base_engine_power + (diff * 9) \div 10
        ELSE car.max_engine_power

\* Car.get_max_acceleration; velocity bands at 28, 56 and 84 m/s
get_max_acceleration(car, velocity) ==
    IF velocity >= 0 /\ velocity < 280
        THEN (car.max_acceleration * 75) \div 100
    ELSE IF velocity >= 280 /\ velocity < 560
        THEN car.max_acceleration
    ELSE IF velocity >= 560 /\ velocity < 840
        THEN (car.max_acceleration * 45) \div 100
    ELSE IF velocity >= 840 /\ velocity < car.max_velocity
        THEN (car.max_acceleration * 30) \div 100
    ELSE 0

----------------------------------------------------------------------------
(* lap_time_calculator.py: LapTimeCalculator *)

\* car.friction * car.mass * GRAV_ACCELERATION, in newtons
total_force(car) == (car.friction * car.mass * GRAV_ACCELERATION) \div 100

\* car.drag_coefficient * 0.5 * AIR_DENSITY * car.frontal_area, in 1/10000
drag_factor(car) ==
    (car.drag_coefficient * 5 * AIR_DENSITY * car.frontal_area) \div 10

\* drag * velocity ** 2, in newtons
drag_force(car, velocity) ==
    (drag_factor(car) * ((velocity * velocity) \div 100)) \div 10000

\* get_sector_max_velocity without the limit of car.max_velocity
get_sector_max_velocity_NoLimit(sector, car) ==
    LET q100(mr) == mr * mr + (drag_factor(car) * drag_factor(car)) \div 1000000
        velocity(mr) == ISqrt((1000 * total_force(car)) \div ISqrt(q100(mr)))
        of(r) ==
            IF r.status # "ok" THEN [status |-> r.status, value |-> 0]
            ELSE [status |-> "ok",
                  value  |-> velocity(IF r.value = Inf THEN 0
                                      ELSE (car.mass * 100) \div r.value)]
    IN  of(radius(sector))

(* get_sector_max_velocity.  velocity = total_force^(1/2) / denom with      *)
(* denom = ((mass / radius)^2 + drag^2)^(1/4), evaluated as                 *)
(* sqrt(total_force / sqrt(q)); q is kept in hundredths.  mass / math.inf   *)
(* is 0.  sector.radius may raise.                                          *)
get_sector_max_velocity(sector, car) ==
    LET capped(velocity) == Min(velocity, car.max_velocity)
        q100(mr) == mr * mr + (drag_factor(car) * drag_factor(car)) \div 1000000
        velocity(mr) == ISqrt((1000 * total_force(car)) \div ISqrt(q100(mr)))
        of(r) ==
            IF r.status # "ok" THEN [status |-> r.status, value |-> 0]
            ELSE [status |-> "ok",
                  value  |-> capped(velocity(IF r.value = Inf THEN 0
                                             ELSE (car.mass * 100) \div r.value))]
    IN  of(radius(sector))

(* get_sector_exit_velocity.  A negative value under the square root makes  *)
(* exit_velocity a complex number, and comparing it with car.max_velocity   *)
(* raises TypeError.                                                        *)
get_sector_exit_velocity(sector, car, entry_velocity) ==
    LET drag       == drag_force(car, entry_velocity)
        power      == get_engine_power(car, entry_velocity)
        p_velocity == IF entry_velocity = 0 THEN 10 ELSE entry_velocity
        engine_acc == ((((power * 10) \div p_velocity) - drag) * 100) \div car.mass
        max_acceleration == get_max_acceleration(car, entry_velocity)
        acceleration == Min(engine_acc, max_acceleration)
        exit_velocity(square) ==
            IF square < 0 THEN [status |-> "TypeError", value |-> 0]
            ELSE [status |-> "ok", value |-> Min(ISqrt(square), car.max_velocity)]
    IN  exit_velocity(entry_velocity * entry_velocity
                      + (2 * acceleration * sector_length(sector)) \div 10)

(* get_sector_entry_velocity.  When the centripetal force exceeds the total *)
(* force the braking force is the square root of a negative number, a       *)
(* complex number, and the comparison with car.max_velocity raises          *)
(* TypeError.  sector.radius may raise.                                     *)
get_sector_entry_velocity(sector, car, exit_velocity) ==
    LET tf == total_force(car)
        braking_force(centripetal_force) ==
            ISqrt(tf * tf - centripetal_force * centripetal_force)
        delta_velocity(decelerative_force) ==
            (20 * sector_length(sector) * decelerative_force) \div car.mass
        entry_velocity(centripetal_force) ==
            IF centripetal_force > tf THEN [status |-> "TypeError", value |-> 0]
            ELSE [status |-> "ok",
                  value  |->
                    Min(ISqrt(exit_velocity * exit_velocity
                              + delta_velocity(braking_force(centripetal_force)
                                               + drag_force(car, exit_velocity))),
                        car.max_velocity)]
        of(r) ==
            IF r.status # "ok" THEN [status |-> r.status, value |-> 0]
            ELSE entry_velocity(
                    IF r.value = Inf THEN 0
                    ELSE (car.mass * exit_velocity * exit_velocity) \div (10 * r.value))
    IN  of(radius(sector))

(* First pass of calculate_lap_time over the sectors from index i (1-based) *)
(* on: entry and exit velocity of each sector.                               *)
RECURSIVE forward_pass(_, _, _, _, _, _)
forward_pass(secs, car, i, entry_velocity, entry_velocities, exit_velocities) ==
    IF i > Len(secs)
    THEN [status |-> "ok", entry_velocities |-> entry_velocities,
          exit_velocities |-> exit_velocities]
    ELSE
    LET next(en1, ex1) ==
            forward_pass(secs, car, i + 1, ex1, Append(entry_velocities, en1),
                         Append(exit_velocities, ex1))
        step(ex, mx) ==
            IF ex.status # "ok"
            THEN [status |-> ex.status, entry_velocities |-> entry_velocities,
                  exit_velocities |-> exit_velocities]
            ELSE IF mx.status # "ok"
            THEN [status |-> mx.status, entry_velocities |-> entry_velocities,
                  exit_velocities |-> exit_velocities]
            ELSE next(Min(entry_velocity, mx.value), Min(ex.value, mx.value))
    IN  step(get_sector_exit_velocity(secs[i], car, entry_velocity),
             get_sector_max_velocity(secs[i], car))

(* Second pass of calculate_lap_time: current_sector_idx (1-based) runs     *)
(* from the last sector down to the first, last_sector_idx starts at the    *)
(* first sector.                                                             *)
RECURSIVE backward_pass(_, _, _, _, _, _)
backward_pass(secs, car, current_sector_idx, last_sector_idx, entry_velocities, exit_velocities) ==
    IF current_sector_idx < 1
    THEN [status |-> "ok", entry_velocities |-> entry_velocities,
          exit_velocities |-> exit_velocities]
    ELSE IF exit_velocities[current_sector_idx] > entry_velocities[last_sector_idx]
    THEN
        LET next(en) ==
                backward_pass(secs, car, current_sector_idx - 1, current_sector_idx,
                              en,
                              [exit_velocities EXCEPT
                                  ![current_sector_idx] = en[last_sector_idx]])
            step(me) ==
                IF me.status # "ok"
                THEN [status |-> me.status, entry_velocities |-> entry_velocities,
                      exit_velocities |-> exit_velocities]
                ELSE next(IF entry_velocities[current_sector_idx] > me.value
                          THEN [entry_velocities EXCEPT
                                   ![current_sector_idx] = me.value]
                          ELSE entry_velocities)
        IN  step(get_sector_entry_velocity(secs[current_sector_idx], car,
                                           entry_velocities[last_sector_idx]))
    ELSE backward_pass(secs, car, current_sector_idx - 1, current_sector_idx,
                       entry_velocities, exit_velocities)

(* Sector times and their sum: 2 * length / (entry + exit) per sector, in   *)
(* milliseconds.  A zero divisor raises ZeroDivisionError.                  *)
lap_timing(secs, entry_velocities, exit_velocities) ==
    IF \E idx \in 1..Len(secs) : entry_velocities[idx] + exit_velocities[idx] = 0
    THEN [status |-> "ZeroDivisionError", lap_time |-> 0]
    ELSE [status |-> "ok",
          lap_time |->
            SumSeq([idx \in 1..Len(secs) |->
                (2 * sector_length(secs[idx]) * 1000)
                    \div (entry_velocities[idx] + exit_velocities[idx])])]

(* The line calculate_lap_time plots when draw_graph is set (the default):  *)
(* the exit velocity of each sector against the distance to its end.        *)
velocity_graph(secs, exit_velocities) ==
    [x |-> [idx \in 1..Len(secs) |->
               SumSeq([k \in 1..idx |-> sector_length(secs[k])])],
     y |-> exit_velocities]

(* LapTimeCalculator.calculate_lap_time.  plots are the lines of the figure *)
(* it saved to velocity_graph.png: none when an exception came first.       *)
calculate_lap_time(vertices, car, starting_velocity) ==
    LET plotted(tm, graph) ==
            IF tm.status # "ok"
            THEN [status |-> tm.status, lap_time |-> 0, plots |-> << >>]
            ELSE [status |-> "ok", lap_time |-> tm.lap_time, plots |-> << graph >>]
        timing(secs, bw) ==
            IF bw.status # "ok"
            THEN [status |-> bw.status, lap_time |-> 0, plots |-> << >>]
            ELSE plotted(lap_timing(secs, bw.entry_velocities, bw.exit_velocities),
                         velocity_graph(secs, bw.exit_velocities))
        backward(secs, fw) ==
            IF fw.status # "ok"
            THEN [status |-> fw.status, lap_time |-> 0, plots |-> << >>]
            ELSE timing(secs, backward_pass(secs, car, Len(secs), 1,
                                            fw.entry_velocities, fw.exit_velocities))
        forward(ss) ==
            IF ss.status # "ok"
            THEN [status |-> ss.status, lap_time |-> 0, plots |-> << >>]
            ELSE backward(ss.sectors,
                          forward_pass(ss.sectors, car, 1, starting_velocity,
                                       << >>, << >>))
    IN  forward(sectors(vertices))

----------------------------------------------------------------------------
(* Inputs: track limits.  generate_line.py reads the two limits from the    *)
(* scene; here they are small closed curves with corresponding indices.     *)

\* a square inside a square, corner to corner
Track4 ==
    [left  |-> << <<10, 10>>, <<20, 10>>, <<20, 20>>, <<10, 20>> >>,
     right |-> << <<0, 0>>, <<30, 0>>, <<30, 30>>, <<0, 30>> >>]

\* the two-point-per-boundary track
Track2 ==
    [left  |-> << <<10, 10>>, <<20, 10>> >>,
     right |-> << <<0, 0>>, <<30, 0>> >>]

\* limits without vertices
Track0 == [left |-> << >>, right |-> << >>]

Tracks == { Track0, Track2, Track4 }

\* longest weight vector and limit given to generate_from_weights
MaxVertices == 3

\* largest sector index given to get_sector
MaxSectorIdx == 5

\* the i-th vertex of a zigzag limit of any length, and of its counterpart
LeftVertex(i) == << 10 * i, 10 + 10 * (i % 2) >>

RightVertex(i) == << 10 * i - 10, 0 >>

LeftLimit(n) == [i \in 1..n |-> LeftVertex(i)]

RightLimit(n) == [i \in 1..n |-> RightVertex(i)]

\* weights in and out of [0.0, 1.0]
WeightValues == { -3, 0, 5, 10, 13 }

SeqsUpTo(S, n) == UNION { [1..k -> S] : k \in 0..n }

NoResult == [status |-> "none"]

NoError == [type |-> "none", at |-> "none"]

NoCandidate == [id |-> 0, weights |-> << >>, lap_time |-> None]

NoProbabilities == [numerators |-> << >>, denominator |-> 0]

NoConfig == [track |-> Track0]

\* velocity_graph.png does not exist
NoFile == [exists |-> FALSE, lines |-> << >>]

\* velocity_graph.png as pyplot.savefig writes it: the lines of the figure
SavedFigure(fig) == [exists |-> TRUE, lines |-> fig]

\* the attributes of a CMAEvolutionaryStrategy are not set
NoCMA == [population_matrix |-> "unset", means |-> "unset",
          covariance_matrix |-> "unset"]

\* no candidate is being evaluated by a thread, nothing is plotted
IOIdle ==
    /\ threads = << >>
    /\ figure = << >>
    /\ disk = NoFile

\* no EvolutionaryStrategy exists
ESIdle ==
    /\ IOIdle
    /\ cma = NoCMA
    /\ cfg = NoConfig
    /\ population = << >>
    /\ generation = 0
    /\ best = NoCandidate
    /\ error = NoError
    /\ next_id = 1
    /\ sims = << >>
    /\ pre_selection = << >>
    /\ probabilities = NoProbabilities

----------------------------------------------------------------------------
(* RacingLine.generate_from_weights on bounded inputs *)

InitGenerate ==
    /\ pc = "generate_from_weights"
    /\ arg \in { [weights |-> w, left |-> LeftLimit(nl), right |-> RightLimit(nr)] :
                    w \in SeqsUpTo(WeightValues, MaxVertices),
                    nl \in 0..MaxVertices, nr \in 0..MaxVertices }
    /\ res = NoResult
    /\ ESIdle

GenerateFromWeights ==
    /\ pc = "generate_from_weights"
    /\ res' = generate_from_weights(arg.weights, arg.left, arg.right)
    /\ pc' = "generated"
    /\ UNCHANGED << arg, esvars, iovars, cma >>

NextGenerate == GenerateFromWeights

SpecGenerate == InitGenerate /\ [][NextGenerate]_vars

----------------------------------------------------------------------------
(* RacingLine.get_sector and RacingLine.sectors on bounded inputs *)

MaxLineLength == 6

SectorLines ==
    { LeftLimit(n) : n \in 0..MaxLineLength } \cup
    { RightLimit(n) : n \in 0..MaxLineLength }

InitSectors ==
    /\ pc \in { "get_sector", "sectors" }
    /\ arg \in { [vertices |-> l, idx |-> i] :
                    l \in SectorLines,
                    i \in IF pc = "sectors" THEN {0} ELSE 0..MaxSectorIdx }
    /\ res = NoResult
    /\ ESIdle

\* get_sector on a line without vertices: idx % 0 is evaluated first
GetSector ==
    /\ pc = "get_sector"
    /\ res' = get_sector(arg.vertices, arg.idx)
    /\ pc' = "got_sector"
    /\ UNCHANGED << arg, esvars, iovars, cma >>

Sectors ==
    /\ pc = "sectors"
    /\ res' = sectors(arg.vertices)
    /\ pc' = "got_sectors"
    /\ UNCHANGED << arg, esvars, iovars, cma >>

NextSectors == GetSector \/ Sectors

SpecSectors == InitSectors /\ [][NextSectors]_vars

----------------------------------------------------------------------------
(* LapTimeCalculator.calculate_lap_time, pass by pass, on bounded inputs *)

\* weights of the lines given to the lap time calculator
LapWeights == { 0, 5, 10 }

\* a closed path of three sectors: a short straight, a corner, a longer straight
Chicane ==
    << <<0, 0>>, <<5, 0>>, <<10, 0>>, <<25, 5>>, <<20, 20>>, <<10, 10>> >>

\* closed paths: every line between the limits of a track, and the chicane
LapLines ==
    { generate_from_weights(w, t.left, t.right).vertices :
        w \in [1..4 -> LapWeights], t \in Tracks }
    \cup { Chicane }

\* starting velocities: 0.0 (the default), 30, 80 and 120 m/s
StartingVelocities == { 0, 300, 800, 1200 }

InitLap ==
    /\ pc = "calculate_lap_time"
    /\ arg \in { [vertices |-> l, car |-> DefaultCar, starting_velocity |-> v] :
                    l \in LapLines, v \in StartingVelocities }
    /\ res = NoResult
    /\ ESIdle

Raised(type) ==
    [status |-> type, sectors |-> << >>, entry_velocities |-> << >>,
     exit_velocities |-> << >>, lap_time |-> 0]

\* racing_line.sectors and the first pass
LapForwardPass ==
    /\ pc = "calculate_lap_time"
    /\ LET ss == sectors(arg.vertices)
       IN  IF ss.status # "ok"
           THEN res' = Raised(ss.status) /\ pc' = "lap_raised"
           ELSE LET fw == forward_pass(ss.sectors, arg.car, 1,
                                       arg.starting_velocity, << >>, << >>)
                IN  IF fw.status # "ok"
                    THEN res' = Raised(fw.status) /\ pc' = "lap_raised"
                    ELSE /\ res' = [status |-> "ok", sectors |-> ss.sectors,
                                    entry_velocities |-> fw.entry_velocities,
                                    exit_velocities |-> fw.exit_velocities,
                                    lap_time |-> 0]
                         /\ pc' = "lap_forward_done"
    /\ UNCHANGED << arg, esvars, iovars, cma >>

\* the second pass
LapBackwardPass ==
    /\ pc = "lap_forward_done"
    /\ LET bw == backward_pass(res.sectors, arg.car, Len(res.sectors), 1,
                               res.entry_velocities, res.exit_velocities)
       IN  IF bw.status # "ok"
           THEN res' = Raised(bw.status) /\ pc' = "lap_raised"
           ELSE /\ res' = [res EXCEPT !.entry_velocities = bw.entry_velocities,
                                      !.exit_velocities = bw.exit_velocities]
                /\ pc' = "lap_backward_done"
    /\ UNCHANGED << arg, esvars, iovars, cma >>

\* sector times, the velocity graph and the lap time
LapTiming ==
    /\ pc = "lap_backward_done"
    /\ LET tm == lap_timing(res.sectors, res.entry_velocities, res.exit_velocities)
       IN  IF tm.status # "ok"
           THEN /\ res' = [res EXCEPT !.status = tm.status]
                /\ pc' = "lap_raised"
                /\ UNCHANGED << figure, disk >>
           ELSE /\ res' = [res EXCEPT !.lap_time = tm.lap_time]
                /\ pc' = "lap_returned"
                /\ figure' = << velocity_graph(res.sectors, res.exit_velocities) >>
                /\ disk' = SavedFigure(figure')
    /\ UNCHANGED << arg, esvars, threads, cma >>

NextLap == LapForwardPass \/ LapBackwardPass \/ LapTiming

SpecLap == InitLap /\ [][NextLap]_vars

----------------------------------------------------------------------------
(* Claims about RacingLine.generate_from_weights (SpecGenerate) *)

\* the three sequences given to generate_from_weights have the same length
SameLengths ==
    /\ Len(arg.weights) = Len(arg.left)
    /\ Len(arg.left) = Len(arg.right)

(* C4: generate_from_weights fails with an error, and never returns a line, *)
(* whenever the weight vector, the left limit and the right limit do not    *)
(* all have the same length.                                                *)
C4_MismatchFails ==
    (pc = "generated" /\ ~SameLengths) => res.status # "ok"

\* vert lies on the segment from l to r, at the parameter weight clamped to [0, 1]
OnSegment(vert, l, r, weight) ==
    /\ \A k \in 1..2 : vert[k] >= IF l[k] < r[k] THEN l[k] ELSE r[k]
    /\ \A k \in 1..2 : vert[k] <= IF l[k] < r[k] THEN r[k] ELSE l[k]
    /\ (vert[1] - l[1]) * (r[2] - l[2]) = (vert[2] - l[2]) * (r[1] - l[1])
    /\ weight <= 0 => vert = l
    /\ weight >= One => vert = r
    /\ (weight > 0 /\ weight < One) =>
          \A k \in 1..2 : (vert[k] - l[k]) * One = (r[k] - l[k]) * weight

(* C5: every vertex i of the line generate_from_weights returns lies on the *)
(* segment between left[i] and right[i], at the parameter weights[i]        *)
(* clamped to [0, 1], and the line has as many vertices as the left limit.  *)
C5_VerticesOnSegments ==
    (pc = "generated" /\ res.status = "ok") =>
        /\ Len(res.vertices) = Len(arg.left)
        /\ \A i \in 1..Len(arg.left) :
              OnSegment(res.vertices[i], arg.left[i], arg.right[i], arg.weights[i])

\* a line of three vertices from a weight below 0, one inside and one above 1
C5_Witness ==
    /\ pc = "generated"
    /\ res.status = "ok"
    /\ SameLengths
    /\ Len(res.vertices) = 3
    /\ arg.weights[1] < 0
    /\ arg.weights[2] > 0 /\ arg.weights[2] < One
    /\ arg.weights[3] > One

----------------------------------------------------------------------------
(* Claims about RacingLine.sectors (SpecSectors) *)

\* the directed edges of the closed loop over the vertices
LoopEdges(vertices) ==
    { << vertices[i], vertices[(i % Len(vertices)) + 1] >> : i \in 1..Len(vertices) }

\* the two edges of every sector, in order
SectorEdges(secs) ==
    Flatten([i \in 1..Len(secs) |->
                << << secs[i].start, secs[i].mid >>, << secs[i].mid, secs[i].end >> >>])

(* C6: for a line of n >= 2 vertices, sectors returns sectors that advance  *)
(* by 2 points, each ending where the next starts and the last ending at    *)
(* vertex 0, which cover every edge of the closed loop exactly once, no     *)
(* sector appearing twice.                                                  *)
C6_SectorsCoverLoop ==
    (pc = "got_sectors" /\ Len(arg.vertices) >= 2) =>
        /\ res.status = "ok"
        /\ LET secs  == res.sectors
               edges == SectorEdges(secs)
           IN  /\ Len(secs) >= 1
               /\ \A i \in 1..Len(secs) : secs[i].start = arg.vertices[2 * i - 1]
               /\ \A i \in 1..(Len(secs) - 1) : secs[i].end = secs[i + 1].start
               /\ secs[Len(secs)].end = arg.vertices[1]
               /\ \A e \in LoopEdges(arg.vertices) :
                      Cardinality({ k \in 1..Len(edges) : edges[k] = e }) = 1
               /\ \A i, j \in 1..Len(secs) : i # j => secs[i] # secs[j]

----------------------------------------------------------------------------
(* Claims about LapTimeCalculator.calculate_lap_time (SpecLap) *)

\* the path has at least one sector of positive length
HasPositiveSector ==
    LET ss == sectors(arg.vertices)
    IN  /\ ss.status = "ok"
        /\ \E i \in 1..Len(ss.sectors) : sector_length(ss.sectors[i]) > 0

(* C7: calculate_lap_time returns a strictly positive lap time for every    *)
(* closed path with a sector of positive length and every starting velocity *)
(* >= 0, and no sector ends the two passes with entry velocity + exit       *)
(* velocity = 0.                                                            *)
C7_LapTimePositive ==
    /\ (pc = "lap_backward_done" /\ HasPositiveSector) =>
          \A idx \in 1..Len(res.sectors) :
              res.entry_velocities[idx] + res.exit_velocities[idx] # 0
    /\ (pc \in { "lap_returned", "lap_raised" } /\ HasPositiveSector
            /\ arg.starting_velocity >= 0) =>
          (pc = "lap_returned" /\ res.lap_time > 0)

----------------------------------------------------------------------------
(* evolutionary_strategy.py: Candidate and EvolutionaryStrategy *)

\* Candidate(weights): lap_time starts as None; id is the object's identity
Candidate(id, weights) == [id |-> id, weights |-> weights, lap_time |-> None]

\* smoothing_order: the default, 1 (linear)
smoothing_order == 1

\* mutation_factor: the default, 0.5, in tenths
mutation_factor == 5

(* scipy.signal.savgol_filter(x, window_length, 1), mode "interp": inside,  *)
(* the mean of the window around i; for the first and the last              *)
(* window_length // 2 values, the least-squares line through the first      *)
(* (last) window_length values, evaluated at i.  The line through           *)
(* y[0..w-1] has at position t0 the value                                   *)
(*   sum over t of y[t] * ((w^2 - 1) + 3 (2t - w + 1)(2 t0 - w + 1))        *)
(*   divided by w (w^2 - 1).                                                *)
(* window_length greater than the size of x raises ValueError.              *)
EdgeFit(y, w, t0) ==
    SumSeq([k \in 1..w |->
        y[k] * ((w * w - 1) + 3 * (2 * (k - 1) - w + 1) * (2 * t0 - w + 1))])
    \div (w * (w * w - 1))

savgol_filter(x, window_length) ==
    LET n == Len(x)
        h == window_length \div 2
    IN  IF window_length > n THEN [status |-> "ValueError", value |-> << >>]
        ELSE [status |-> "ok",
              value  |->
                [i \in 1..n |->
                    IF i <= h
                        THEN EdgeFit(SubSeq(x, 1, window_length), window_length, i - 1)
                    ELSE IF i > n - h
                        THEN EdgeFit(SubSeq(x, n - window_length + 1, n),
                                     window_length, i - (n - window_length + 1))
                    ELSE SumSeq(SubSeq(x, i - h, i + h)) \div window_length]]

\* the smoothing step of generate_population and generate_offspring
smoothen(c, weights) ==
    IF c.smoothing_length > 0 THEN savgol_filter(weights, c.smoothing_length)
                              ELSE [status |-> "ok", value |-> weights]

\* one value per weight group, repeated weight_group_size times
grouped(c, draws) ==
    Flatten([k \in 1..Len(draws) |-> Repeat(draws[k], c.weight_group_size)])

\* values random.uniform(0.0, 1.0) returns in the model
UniformDraws == { 1, 9 }

\* values np.random.normal(0.0, standard_deviation, 1) returns in the model
NormalDraws == { -6, 6 }

\* weights of a seeded candidate from its draws, one per weight group
seed_weights(c, draws) == smoothen(c, grouped(c, draws))

\* offspring weights with the path vector not scaled by mutation_factor
offspring_weights_Unscaled(c, parent, draws) ==
    LET path_vector == grouped(c, draws)
    IN  smoothen(c, [w_idx \in 1..Len(parent.weights) |->
                        clamp(parent.weights[w_idx] + path_vector[w_idx], 0, One)])

\* weights of the offspring of parent from its draws, one per weight group
offspring_weights(c, parent, draws) ==
    LET path_vector    == grouped(c, draws)
        mutated_vector == [k \in 1..Len(path_vector) |->
                              (path_vector[k] * mutation_factor) \div 10]
    IN  smoothen(c, [w_idx \in 1..Len(parent.weights) |->
                        clamp(parent.weights[w_idx] + mutated_vector[w_idx], 0, One)])

(* EvolutionaryStrategy.calculate_fitness: a lap time that is None or 0.0   *)
(* is falsy, and the lap time is then computed.  simulated tells whether    *)
(* calculate_lap_time was called.                                           *)
calculate_fitness(c, candidate) ==
    IF candidate.lap_time # None /\ candidate.lap_time # 0
    THEN [status |-> "ok", candidate |-> candidate, simulated |-> FALSE,
          plots |-> << >>]
    ELSE LET timed(lap) ==
                 IF lap.status # "ok"
                 THEN [status |-> lap.status, candidate |-> candidate,
                       simulated |-> TRUE, plots |-> << >>]
                 ELSE [status |-> "ok",
                       candidate |-> [candidate EXCEPT !.lap_time = lap.lap_time],
                       simulated |-> TRUE, plots |-> lap.plots]
             simulate(line) ==
                 IF line.status # "ok"
                 THEN [status |-> line.status, candidate |-> candidate,
                       simulated |-> FALSE, plots |-> << >>]
                 ELSE timed(calculate_lap_time(line.vertices, DefaultCar,
                                               c.starting_velocity))
         IN  simulate(generate_from_weights(candidate.weights, c.track.left,
                                            c.track.right))

\* the simulation counts after a calculate_fitness call
Counted(count, fit) ==
    IF fit.simulated THEN [count EXCEPT ![fit.candidate.id] = @ + 1] ELSE count

\* pyplot's figure after a calculate_fitness call: cleared and drawn, or as it was
Drawn(fig, fit) == IF fit.plots # << >> THEN fit.plots ELSE fig

\* velocity_graph.png after a calculate_fitness call
Written(file, fit) == IF fit.plots # << >> THEN SavedFigure(fit.plots) ELSE file

(* The first loop of perform_selection: calculate_fitness on every          *)
(* candidate in turn, from index i on; an exception ends it.  fig and file  *)
(* are pyplot's figure and velocity_graph.png.                              *)
RECURSIVE score_population(_, _, _, _, _, _)
score_population(c, pop, i, count, fig, file) ==
    IF i > Len(pop)
    THEN [status |-> "ok", population |-> pop, sims |-> count, figure |-> fig,
          disk |-> file]
    ELSE LET step(fit) ==
                 IF fit.status # "ok"
                 THEN [status |-> fit.status, population |-> pop,
                       sims |-> Counted(count, fit), figure |-> fig, disk |-> file]
                 ELSE score_population(c, [pop EXCEPT ![i] = fit.candidate], i + 1,
                                        Counted(count, fit), Drawn(fig, fit),
                                        Written(file, fit))
         IN  step(calculate_fitness(c, pop[i]))

\* the shares f_i / F themselves, the complement not taken
selection_probabilities_NoComplement(pop) ==
    LET population_fitness == SumSeq([i \in 1..Len(pop) |-> pop[i].lap_time])
    IN  [numerators  |-> [i \in 1..Len(pop) |-> pop[i].lap_time],
         denominator |-> population_fitness]

(* The probabilities of perform_selection.  With F the population fitness,  *)
(* candidate i has the share f_i / F, the complement (F - f_i) / F and,     *)
(* divided by the sum of the complements, the probability                   *)
(* (F - f_i) / sum over j of (F - f_j): numerators over one denominator.    *)
(* A zero denominator stands for the NaN of 0 / 0.                          *)
selection_probabilities(pop) ==
    LET population_fitness == SumSeq([i \in 1..Len(pop) |-> pop[i].lap_time])
        complements == [i \in 1..Len(pop) |-> population_fitness - pop[i].lap_time]
    IN  [numerators |-> complements, denominator |-> SumSeq(complements)]

\* np.random.choice with replace=True: an index may be drawn again
choice_WithReplacement(p, size) ==
    LET positive == { i \in 1..Len(p.numerators) : p.numerators[i] > 0 }
    IN  [1..size -> positive]

(* np.random.choice(a, size, replace=False, p): the samples it can return,  *)
(* as sequences of indices into a; an index is drawn at most once and only  *)
(* if its probability is positive.                                          *)
choice(p, size) ==
    LET positive == { i \in 1..Len(p.numerators) : p.numerators[i] > 0 }
    IN  { s \in [1..size -> positive] : \A i, j \in 1..size : i # j => s[i] # s[j] }

\* the last loop of run without its comparison: the first candidate
best_candidate_First(pop, idx, size, best_so_far) ==
    [status |-> "ok", candidate |-> best_so_far]

(* The last loop of run: the candidate with the least lap time among the    *)
(* first population_size ones.  Comparing with a lap time of None raises    *)
(* TypeError.                                                               *)
RECURSIVE best_candidate(_, _, _, _)
best_candidate(pop, idx, size, best_so_far) ==
    IF idx > size THEN [status |-> "ok", candidate |-> best_so_far]
    ELSE IF pop[idx].lap_time = None \/ best_so_far.lap_time = None
    THEN [status |-> "TypeError", candidate |-> best_so_far]
    ELSE best_candidate(pop, idx + 1, size,
                        IF pop[idx].lap_time < best_so_far.lap_time
                        THEN pop[idx] ELSE best_so_far)

----------------------------------------------------------------------------
(* EvolutionaryStrategy.run, step by step, and calculate_fitness called by  *)
(* the client once run has ended.                                           *)

\* population_size + num_offspring + iterations of the strategies on Track4
MaxBudget == 4

\* lap time simulations the client's calculate_fitness calls run per candidate
MaxSimulations == 2

BaseConfig(p, o, i) ==
    [track |-> Track4, starting_velocity |-> 0, weight_group_size |-> 4,
     smoothing_length |-> 0, population_size |-> p, num_offspring |-> o,
     iterations |-> i]

Configs ==
    { BaseConfig(p, o, i) : p \in 1..MaxBudget, o \in 0..MaxBudget, i \in 0..MaxBudget }
    \cup
    { [BaseConfig(2, 1, 1) EXCEPT !.weight_group_size = g, !.smoothing_length = l] :
        g \in { 2, 3 }, l \in { 0, 3 } }
    \cup
    { [BaseConfig(2, 1, 1) EXCEPT !.track = t, !.starting_velocity = v,
                                  !.weight_group_size = 2] :
        t \in { Track0, Track2 }, v \in { 0, 800 } }

InitES ==
    /\ pc = "run"
    /\ cfg \in { c \in Configs :
                    c.population_size + c.num_offspring + c.iterations <= MaxBudget }
    /\ population = << >>
    /\ generation = 0
    /\ best = NoCandidate
    /\ error = NoError
    /\ next_id = 1
    /\ sims = << >>
    /\ pre_selection = << >>
    /\ probabilities = NoProbabilities
    /\ arg = << >>
    /\ res = NoResult
    /\ IOIdle
    /\ cma = NoCMA

Raise(type, at) ==
    /\ pc' = "raised"
    /\ error' = [type |-> type, at |-> at]

\* number of weight groups of a vector of n weights
Groups(n) == RangeCount(n, cfg.weight_group_size)

\* generate_population
GeneratePopulation ==
    /\ pc = "run"
    /\ \E draws \in [1..cfg.population_size ->
                        [1..Groups(Len(cfg.track.left)) -> UniformDraws]] :
          LET weights == [k \in 1..cfg.population_size |->
                              seed_weights(cfg, draws[k])]
          IN  IF \E k \in 1..cfg.population_size : weights[k].status # "ok"
              THEN /\ Raise("ValueError", "generate_population")
                   /\ UNCHANGED << population, next_id, sims >>
              ELSE /\ population' = [k \in 1..cfg.population_size |->
                                        Candidate(next_id + k - 1, weights[k].value)]
                   /\ next_id' = next_id + cfg.population_size
                   /\ sims' = sims \o Repeat(0, cfg.population_size)
                   /\ pc' = "generation"
                   /\ UNCHANGED error
    /\ UNCHANGED << cfg, generation, best, pre_selection, probabilities, fnvars, iovars, cma >>

\* generate_offspring, in a generation of run
GenerateOffspring ==
    /\ pc = "generation"
    /\ generation < cfg.iterations
    /\ \E idx \in [1..cfg.num_offspring -> 1..cfg.population_size] :
       \E draws \in [1..cfg.num_offspring ->
                        [1..Groups(Len(population[1].weights)) -> NormalDraws]] :
          LET weights == [k \in 1..cfg.num_offspring |->
                              offspring_weights(cfg, population[idx[k]], draws[k])]
          IN  IF \E k \in 1..cfg.num_offspring : weights[k].status # "ok"
              THEN /\ Raise("ValueError", "generate_offspring")
                   /\ UNCHANGED << population, next_id, sims >>
              ELSE /\ population' = population \o
                                    [k \in 1..cfg.num_offspring |->
                                        Candidate(next_id + k - 1, weights[k].value)]
                   /\ next_id' = next_id + cfg.num_offspring
                   /\ sims' = sims \o Repeat(0, cfg.num_offspring)
                   /\ pc' = "selection"
                   /\ UNCHANGED error
    /\ UNCHANGED << cfg, generation, best, pre_selection, probabilities, fnvars, iovars, cma >>

\* perform_selection, in a generation of run
PerformSelection ==
    /\ pc = "selection"
    /\ LET select(pop, p) ==
               /\ pre_selection' = pop
               /\ probabilities' = p
               /\ IF p.denominator = 0 \/ choice(p, cfg.population_size) = {}
                  THEN /\ Raise("ValueError", "perform_selection")
                       /\ population' = pop
                       /\ UNCHANGED generation
                  ELSE /\ \E chosen \in choice(p, cfg.population_size) :
                            population' = [k \in 1..cfg.population_size |->
                                              pop[chosen[k]]]
                       /\ generation' = generation + 1
                       /\ pc' = "generation"
                       /\ UNCHANGED error
           selection(scored) ==
               /\ sims' = scored.sims
               /\ figure' = scored.figure
               /\ disk' = scored.disk
               /\ IF scored.status # "ok"
                  THEN /\ Raise(scored.status, "calculate_fitness")
                       /\ population' = scored.population
                       /\ UNCHANGED << generation, pre_selection, probabilities >>
                  ELSE IF SumSeq([i \in 1..Len(population) |->
                                    scored.population[i].lap_time]) = 0
                  THEN /\ Raise("ZeroDivisionError", "perform_selection")
                       /\ population' = scored.population
                       /\ UNCHANGED << generation, pre_selection, probabilities >>
                  ELSE select(scored.population,
                              selection_probabilities(scored.population))
       IN  selection(score_population(cfg, population, 1, sims, figure, disk))
    /\ UNCHANGED << cfg, best, next_id, fnvars, threads, cma >>

\* the end of run: the best candidate of the final population
SelectBest ==
    /\ pc = "generation"
    /\ generation = cfg.iterations
    /\ LET found == best_candidate(population, 2, cfg.population_size, population[1])
       IN  IF found.status # "ok"
           THEN /\ Raise(found.status, "run")
                /\ UNCHANGED best
           ELSE /\ best' = found.candidate
                /\ pc' = "returned"
                /\ UNCHANGED error
    /\ UNCHANGED << cfg, population, generation, next_id, sims, pre_selection,
                    probabilities, fnvars, iovars, cma >>

\* calculate_fitness(population[i]) called by the client after run
CalculateFitness(i) ==
    /\ pc \in { "returned", "raised" }
    /\ i \in 1..Len(population)
    /\ sims[population[i].id] < MaxSimulations
    /\ LET called(fit) ==
               /\ population' = [population EXCEPT ![i] = fit.candidate]
               /\ sims' = Counted(sims, fit)
               /\ figure' = Drawn(figure, fit)
               /\ disk' = Written(disk, fit)
               /\ error' = IF fit.status # "ok"
                           THEN [type |-> fit.status, at |-> "calculate_fitness"]
                           ELSE error
       IN  called(calculate_fitness(cfg, population[i]))
    /\ UNCHANGED << pc, cfg, generation, best, next_id, pre_selection,
                    probabilities, fnvars, threads, cma >>

NextES ==
    \/ GeneratePopulation
    \/ GenerateOffspring
    \/ PerformSelection
    \/ SelectBest
    \/ \E i \in 1..MaxBudget : CalculateFitness(i)

SpecES == InitES /\ [][NextES]_vars

----------------------------------------------------------------------------
(* Claims about EvolutionaryStrategy (SpecES) *)

(* C1: run returns, for every iterations >= 0 and population_size >= 1, a   *)
(* candidate of the final population whose lap time is the least of the     *)
(* final population: its last loop does not raise, and no candidate of the  *)
(* population has a lower lap time than the candidate it returns.           *)
C1_RunReturnsMinimum ==
    /\ error.at # "run"
    /\ pc = "returned" =>
          /\ best \in Range(population)
          /\ \A k \in 1..Len(population) : best.lap_time <= population[k].lap_time

(* C2: after seeding and after every completed generation the population    *)
(* holds exactly population_size candidates, pairwise distinct, and after a *)
(* generation all of them come from the population perform_selection was    *)
(* given (the previous population and its offspring).                       *)
C2_PopulationAfterGeneration ==
    pc = "generation" =>
        /\ Len(population) = cfg.population_size
        /\ \A i, j \in 1..Len(population) :
              i # j => population[i].id # population[j].id
        /\ generation > 0 => Range(population) \subseteq Range(pre_selection)

\* a generation has been completed in which selection kept an offspring and
\* discarded another candidate
C2_Witness ==
    /\ pc = "generation"
    /\ generation > 0
    /\ Len(pre_selection) > Len(population)
    /\ \E k \in 1..Len(population) :
          population[k].id = pre_selection[Len(pre_selection)].id

(* C3: once a candidate has a lap time, whatever its value, no step runs    *)
(* the lap time simulation for it again.                                    *)
C3_SimulatedOnce ==
    [][\A k \in 1..Len(population) :
          population[k].lap_time # None =>
              sims'[population[k].id] = sims[population[k].id]]_vars

(* C8: every weight of every candidate in the population lies in [0, 1].    *)
C8_WeightsInUnitInterval ==
    \A k \in 1..Len(population) :
        \A w \in 1..Len(population[k].weights) :
            population[k].weights[w] >= 0 /\ population[k].weights[w] <= One

(* C9: among the probabilities perform_selection computes for a population  *)
(* of two or more candidates with a positive total lap time, a candidate    *)
(* with a strictly lower lap time has a strictly higher probability, and    *)
(* the probabilities are all >= 0 and sum to 1.                             *)
C9_LowerLapTimeMoreLikely ==
    (probabilities # NoProbabilities /\ Len(pre_selection) >= 2) =>
        LET num == probabilities.numerators
            den == probabilities.denominator
        IN  /\ den > 0
            /\ Len(num) = Len(pre_selection)
            /\ \A i \in 1..Len(num) : num[i] >= 0
            /\ SumSeq(num) = den
            /\ \A i, j \in 1..Len(num) :
                  pre_selection[i].lap_time < pre_selection[j].lap_time
                      => num[i] > num[j]

\* perform_selection has computed the probabilities of three candidates, two
\* of them with different lap times
C9_Witness ==
    /\ probabilities # NoProbabilities
    /\ Len(pre_selection) >= 3
    /\ \E i, j \in 1..Len(pre_selection) :
          /\ pre_selection[i].lap_time < pre_selection[j].lap_time
          /\ pre_selection[i].lap_time > 0

(* C10: perform_selection never fails by dividing by a total lap time of    *)
(* zero: a guard raises a defined error before the division.                *)
C10_ZeroTotalGuarded ==
    ~(pc = "raised" /\ error = [type |-> "ZeroDivisionError",
                                at |-> "perform_selection"])

----------------------------------------------------------------------------
(* Claims about the two passes of calculate_lap_time (SpecLap) *)

\* the sector after sector i (1-based), the first one after the last one
NextSector(i, n) == (i % n) + 1

(* C13: after the backward pass the exit velocity of every sector is at     *)
(* most the entry velocity of the next sector, the sector after the last    *)
(* one being the first one.                                                  *)
C13_ExitWithinNextEntry ==
    pc = "lap_backward_done" =>
        \A i \in 1..Len(res.sectors) :
            res.exit_velocities[i]
                <= res.entry_velocities[NextSector(i, Len(res.sectors))]

\* maximum cornering velocity of sector i of the lap under way
SectorMax(i) == get_sector_max_velocity(res.sectors[i], arg.car).value

(* C19: the backward pass raises no velocity, and after it the entry and    *)
(* the exit velocity of every sector are at most the sector's maximum       *)
(* cornering velocity, itself at most the car's max_velocity.               *)
C19_BackwardPassOnlyLowers ==
    [][(pc = "lap_forward_done" /\ pc' = "lap_backward_done") =>
          \A i \in 1..Len(res.sectors) :
              /\ res'.entry_velocities[i] <= res.entry_velocities[i]
              /\ res'.exit_velocities[i] <= res.exit_velocities[i]
              /\ res'.entry_velocities[i] <= SectorMax(i)
              /\ res'.exit_velocities[i] <= SectorMax(i)
              /\ SectorMax(i) <= arg.car.max_velocity]_vars

\* a lap started above max_velocity whose backward pass lowered a velocity
C19_Witness ==
    /\ pc = "lap_backward_done"
    /\ arg.starting_velocity > arg.car.max_velocity
    /\ LET fw == forward_pass(res.sectors, arg.car, 1, arg.starting_velocity,
                              << >>, << >>)
       IN  \E i \in 1..Len(res.sectors) :
              \/ res.exit_velocities[i] < fw.exit_velocities[i]
              \/ res.entry_velocities[i] < fw.entry_velocities[i]

----------------------------------------------------------------------------
(* The second pass of calculate_lap_time, one iteration of its loop at a    *)
(* time.  res keeps the velocities of the first pass next to the current    *)
(* ones, the two loop variables and the arguments of the call of            *)
(* get_sector_entry_velocity made by the last iteration.                    *)

\* the last iteration did not call get_sector_entry_velocity
NoCall == [sector |-> 0, exit_velocity |-> 0]

\* the condition of the second pass to call get_sector_entry_velocity
must_brake_Always(exit_velocity, next_entry_velocity) == TRUE

must_brake(exit_velocity, next_entry_velocity) ==
    exit_velocity > next_entry_velocity

\* sectors and first pass of calculate_lap_time on the input a
first_pass(a) ==
    LET forward(ss) ==
            IF ss.status # "ok"
            THEN [status |-> ss.status, sectors |-> << >>,
                  entry_velocities |-> << >>, exit_velocities |-> << >>]
            ELSE [sectors |-> ss.sectors] @@
                 forward_pass(ss.sectors, a.car, 1, a.starting_velocity,
                              << >>, << >>)
    IN  forward(sectors(a.vertices))

\* the state at the entry of the second pass
second_pass_entry(fw) ==
    [status |-> "ok", sectors |-> fw.sectors,
     forward_entry_velocities |-> fw.entry_velocities,
     forward_exit_velocities |-> fw.exit_velocities,
     entry_velocities |-> fw.entry_velocities,
     exit_velocities |-> fw.exit_velocities,
     current_sector_idx |-> Len(fw.sectors), last_sector_idx |-> 1,
     braking |-> NoCall]

InitBackward ==
    /\ pc = "backward_pass"
    /\ arg \in { a \in { [vertices |-> l, car |-> DefaultCar, starting_velocity |-> v] :
                            l \in LapLines, v \in StartingVelocities } :
                    first_pass(a).status = "ok" }
    /\ res = second_pass_entry(first_pass(arg))
    /\ ESIdle

\* one iteration of the loop over reversed(range(len(sectors)))
BackwardStep ==
    /\ pc = "backward_pass"
    /\ res.current_sector_idx >= 1
    /\ LET cur  == res.current_sector_idx
           last == res.last_sector_idx
           next(r) == [r EXCEPT !.current_sector_idx = cur - 1,
                                !.last_sector_idx = cur]
           call == [sector |-> cur, exit_velocity |-> res.entry_velocities[last]]
           lowered(en) ==
               [res EXCEPT !.entry_velocities = en,
                           !.exit_velocities =
                               [res.exit_velocities EXCEPT ![cur] = en[last]],
                           !.braking = call]
           braked(me) ==
               IF me.status # "ok"
               THEN /\ res' = [res EXCEPT !.status = me.status, !.braking = call]
                    /\ pc' = "backward_raised"
               ELSE /\ res' = next(lowered(
                                  [res.entry_velocities EXCEPT
                                      ![cur] = Min(@, me.value)]))
                    /\ pc' = pc
       IN  IF must_brake(res.exit_velocities[cur], res.entry_velocities[last])
           THEN braked(get_sector_entry_velocity(res.sectors[cur], arg.car,
                                                 res.entry_velocities[last]))
           ELSE /\ res' = next([res EXCEPT !.braking = NoCall])
                /\ pc' = pc
    /\ UNCHANGED << arg, esvars, iovars, cma >>

\* the loop has run over every sector
BackwardDone ==
    /\ pc = "backward_pass"
    /\ res.current_sector_idx < 1
    /\ pc' = "backward_done"
    /\ UNCHANGED << arg, res, esvars, iovars, cma >>

NextBackward == BackwardStep \/ BackwardDone

SpecBackward == InitBackward /\ [][NextBackward]_vars

\* the loop, iteration by iteration, ends as backward_pass does
BackwardAgrees ==
    pc = "backward_done" =>
        LET bw == backward_pass(res.sectors, arg.car, Len(res.sectors), 1,
                                res.forward_entry_velocities,
                                res.forward_exit_velocities)
        IN  /\ bw.status = "ok"
            /\ bw.entry_velocities = res.entry_velocities
            /\ bw.exit_velocities = res.exit_velocities

(* C18: the second pass calls get_sector_entry_velocity for a sector only   *)
(* with an exit velocity strictly lower than the exit velocity the first    *)
(* pass gave that sector, hence at most the sector's maximum cornering      *)
(* velocity, and the call never finds the centripetal force above the       *)
(* total force (TypeError).                                                 *)
C18_BrakingFeasible ==
    /\ res.braking # NoCall =>
          /\ res.braking.exit_velocity
                < res.forward_exit_velocities[res.braking.sector]
          /\ res.braking.exit_velocity <= SectorMax(res.braking.sector)
    /\ pc # "backward_raised"

\* an iteration of the second pass has just called get_sector_entry_velocity
\* and lowered the entry velocity of its sector
C18_Witness ==
    /\ pc = "backward_pass"
    /\ res.braking # NoCall
    /\ res.entry_velocities[res.braking.sector]
          < res.forward_entry_velocities[res.braking.sector]

----------------------------------------------------------------------------
(* car.py: Car.get_max_velocity, and the methods of Car and of              *)
(* LapTimeCalculator that take a car, on bounded inputs                     *)

(* Car.get_max_velocity: the computation of get_sector_max_velocity on the  *)
(* car's own attributes.                                                    *)
get_max_velocity(car, sector) ==
    LET capped(velocity) == Min(velocity, car.max_velocity)
        q100(mr) == mr * mr + (drag_factor(car) * drag_factor(car)) \div 1000000
        velocity(mr) == ISqrt((1000 * total_force(car)) \div ISqrt(q100(mr)))
        of(r) ==
            IF r.status # "ok" THEN [status |-> r.status, value |-> 0]
            ELSE [status |-> "ok",
                  value  |-> capped(velocity(IF r.value = Inf THEN 0
                                             ELSE (car.mass * 100) \div r.value))]
    IN  of(radius(sector))

\* max_velocity of the cars: 20, 50, 70, 84, 100 (the default) and 120 m/s
MaxVelocities == { 200, 500, 700, 840, 1000, 1200 }

\* velocities around the limits of the bands and of the cars
Velocities ==
    { -10, 0, 100, 279, 280, 499, 500, 559, 560, 700, 839, 840, 999, 1000, 1300 }

\* friction coefficients: 0.5, 1.0 and 1.6 (the default)
Frictions == { 5, 10, 16 }

\* masses: 100, 740 (the default) and 1000 kg
Masses == { 100, 740, 1000 }

\* a sector of three colinear points and the corner of the chicane
CarSectors ==
    { Sector(<< <<0, 0>>, <<5, 0>>, <<10, 0>> >>),
      Sector(<< <<10, 0>>, <<25, 5>>, <<20, 20>> >>) }

InitCar ==
    /\ pc \in { "get_max_acceleration", "get_max_velocity",
                "get_sector_max_velocity" }
    /\ arg \in IF pc = "get_max_acceleration"
                THEN { [car |-> [DefaultCar EXCEPT !.max_velocity = mv],
                        velocity |-> v] :
                          mv \in MaxVelocities, v \in Velocities }
                ELSE { [car |-> [DefaultCar EXCEPT !.friction = f, !.mass = ms],
                        sector |-> sec] :
                          f \in Frictions, ms \in Masses, sec \in CarSectors }
    /\ res = NoResult
    /\ ESIdle

GetMaxAcceleration ==
    /\ pc = "get_max_acceleration"
    /\ res' = [status |-> "ok",
               value |-> get_max_acceleration(arg.car, arg.velocity)]
    /\ pc' = "got_max_acceleration"
    /\ UNCHANGED << arg, esvars, iovars, cma >>

GetMaxVelocity ==
    /\ pc = "get_max_velocity"
    /\ res' = get_max_velocity(arg.car, arg.sector)
    /\ pc' = "got_max_velocity"
    /\ UNCHANGED << arg, esvars, iovars, cma >>

GetSectorMaxVelocity ==
    /\ pc = "get_sector_max_velocity"
    /\ res' = get_sector_max_velocity(arg.sector, arg.car)
    /\ pc' = "got_sector_max_velocity"
    /\ UNCHANGED << arg, esvars, iovars, cma >>

NextCar == GetMaxAcceleration \/ GetMaxVelocity \/ GetSectorMaxVelocity

SpecCar == InitCar /\ [][NextCar]_vars

(* C16: get_max_acceleration returns 0 for every velocity at or above the   *)
(* car's max_velocity, and max_acceleration times 0.75, 1.0, 0.45 or 0.3    *)
(* only for velocities in [0, max_velocity).                                *)
C16_ZeroBeyondMaxVelocity ==
    pc = "got_max_acceleration" =>
        /\ arg.velocity >= arg.car.max_velocity => res.value = 0
        /\ res.value # 0 =>
              /\ arg.velocity >= 0 /\ arg.velocity < arg.car.max_velocity
              /\ res.value \in { (arg.car.max_acceleration * k) \div 100 :
                                    k \in { 75, 100, 45, 30 } }

(* C17: for a sector of three colinear points the maximum cornering         *)
(* velocity get_max_velocity and get_sector_max_velocity return is the      *)
(* car's max_velocity, whatever the friction coefficient and the mass.      *)
C17_StraightGivesMaxVelocity ==
    (pc \in { "got_max_velocity", "got_sector_max_velocity" }
        /\ radius(arg.sector).value = Inf) =>
        res.value = arg.car.max_velocity

----------------------------------------------------------------------------
(* Further claims about EvolutionaryStrategy (SpecES) *)

(* C14: every weight vector in the population has exactly as many           *)
(* components as the limits have vertices, also when weight_group_size      *)
(* does not divide the number of vertices.                                  *)
C14_OneWeightPerVertex ==
    \A k \in 1..Len(population) :
        Len(population[k].weights) = Len(cfg.track.left)

\* weights is parent's weights with each component moved by a scaled draw
\* and clamped
MutationOf(weights, parent) ==
    /\ Len(weights) = Len(parent.weights)
    /\ cfg.smoothing_length = 0 =>
          \A w \in 1..Len(weights) :
              \E d \in NormalDraws :
                  weights[w] = Max(0, Min(One, parent.weights[w]
                                               + (d * mutation_factor) \div 10))

(* C15: generate_offspring appends exactly num_offspring candidates, each   *)
(* new, unscored and derived from one of the population_size candidates     *)
(* present before the call, and leaves the candidates present before the    *)
(* call in place and unchanged.                                             *)
C15_OffspringAppended ==
    [][(pc = "generation" /\ pc' = "selection") =>
          /\ Len(population') = Len(population) + cfg.num_offspring
          /\ \A k \in 1..Len(population) : population'[k] = population[k]
          /\ \A k \in (Len(population) + 1)..Len(population') :
                /\ population'[k].lap_time = None
                /\ \A j \in 1..Len(population') :
                      j # k => population'[j].id # population'[k].id
                /\ \E idx \in 1..cfg.population_size :
                      MutationOf(population'[k].weights, population[idx])]_vars

\* generate_offspring has appended an offspring to a population that was
\* scored in an earlier generation
C15_Witness ==
    /\ pc = "selection"
    /\ generation >= 1
    /\ Len(population) = cfg.population_size + cfg.num_offspring
    /\ cfg.num_offspring >= 1
    /\ population[1].lap_time # None
    /\ population[Len(population)].lap_time = None

\* the least lap time of a population of scored candidates
MinLap(pop) ==
    CHOOSE m \in { pop[k].lap_time : k \in 1..Len(pop) } :
        \A k \in 1..Len(pop) : m <= pop[k].lap_time

(* C20 as stated: the least lap time of the population after a              *)
(* generation's selection is at most the least lap time of the candidates   *)
(* scored in that generation, and so is the lap time of the candidate run   *)
(* returns.                                                                  *)
C20_BestNeverWorse ==
    /\ (pc = "generation" /\ generation >= 1) =>
          MinLap(population) <= MinLap(pre_selection)
    /\ (pc = "returned" /\ cfg.iterations >= 1) =>
          best.lap_time <= MinLap(pre_selection)

(* C20 as amended: the least lap time of the population after a             *)
(* generation's selection is at least the least lap time of the candidates  *)
(* scored in that generation, and the candidate run returns after one or    *)
(* more generations has the least lap time of the final population.         *)
C20_SelectionKeepsNoBetter ==
    /\ (pc = "generation" /\ generation >= 1) =>
          MinLap(population) >= MinLap(pre_selection)
    /\ (pc = "returned" /\ cfg.iterations >= 1) =>
          /\ best.lap_time = MinLap(population)
          /\ best.lap_time >= MinLap(pre_selection)

\* run has returned a candidate slower than one scored in the last generation
C20_Witness ==
    /\ pc = "returned"
    /\ cfg.iterations >= 1
    /\ best.lap_time > MinLap(pre_selection)

----------------------------------------------------------------------------
(* calculate_fitness on the candidates of one generation, one thread per    *)
(* candidate.  The simulation of a candidate works on objects of its own    *)
(* call; pyplot's current figure and the file velocity_graph.png belong to  *)
(* the process, and each of pyplot.clf, pyplot.plot and pyplot.savefig is   *)
(* one step on them.                                                        *)

\* candidates evaluated at the same time
MaxThreads == 2

\* weight vectors of the candidates of the generation
FitnessWeights == { <<0, 0, 0, 0>>, <<5, 5, 5, 5>>, <<10, 10, 10, 10>>, <<0, 10, 0, 10>> }

FitnessConfigs ==
    { [BaseConfig(n, 0, 0) EXCEPT !.starting_velocity = v] :
        n \in 1..MaxThreads, v \in { 0, 100 } }

InitFitness ==
    /\ pc = "evaluate_population"
    /\ cfg \in FitnessConfigs
    /\ population \in { [i \in 1..cfg.population_size |-> Candidate(i, w[i])] :
                           w \in [1..cfg.population_size -> FitnessWeights] }
    /\ threads = [i \in 1..cfg.population_size |->
                     [pc |-> "calculate_fitness", fit |-> NoResult]]
    /\ figure = << >>
    /\ disk = NoFile
    /\ generation = 0
    /\ best = NoCandidate
    /\ error = NoError
    /\ next_id = cfg.population_size + 1
    /\ sims = [i \in 1..cfg.population_size |-> 0]
    /\ pre_selection = << >>
    /\ probabilities = NoProbabilities
    /\ arg = << >>
    /\ res = NoResult
    /\ cma = NoCMA

(* calculate_fitness of candidate t up to the draw_graph test: the cached   *)
(* fitness is returned, or the line is generated and simulated, which may   *)
(* raise.                                                                   *)
FitnessSimulate(t) ==
    /\ t \in 1..Len(threads)
    /\ threads[t].pc = "calculate_fitness"
    /\ LET simulated(fit) ==
               /\ threads' = [threads EXCEPT ![t] =
                     [pc |-> IF fit.status # "ok" THEN "raised"
                             ELSE IF fit.plots = << >> THEN "done" ELSE "clf",
                      fit |-> fit]]
               /\ sims' = Counted(sims, fit)
       IN  simulated(calculate_fitness(cfg, population[t]))
    /\ UNCHANGED << pc, cfg, population, generation, best, error, next_id,
                    pre_selection, probabilities, fnvars, figure, disk, cma >>

\* pyplot.clf(): the current figure loses its lines
PyplotClf(t) ==
    /\ t \in 1..Len(threads)
    /\ threads[t].pc = "clf"
    /\ figure' = << >>
    /\ threads' = [threads EXCEPT ![t].pc = "plot"]
    /\ UNCHANGED << pc, esvars, fnvars, disk, cma >>

\* pyplot.plot(distances, exit_velocities, ...): a line more in the figure
PyplotPlot(t) ==
    /\ t \in 1..Len(threads)
    /\ threads[t].pc = "plot"
    /\ figure' = figure \o threads[t].fit.plots
    /\ threads' = [threads EXCEPT ![t].pc = "savefig"]
    /\ UNCHANGED << pc, esvars, fnvars, disk, cma >>

\* pyplot.savefig("velocity_graph.png"): the current figure goes to the file
PyplotSavefig(t) ==
    /\ t \in 1..Len(threads)
    /\ threads[t].pc = "savefig"
    /\ disk' = SavedFigure(figure)
    /\ threads' = [threads EXCEPT ![t].pc = "return"]
    /\ UNCHANGED << pc, esvars, fnvars, figure, cma >>

\* the lap time is summed, returned and stored in the candidate
FitnessReturn(t) ==
    /\ t \in 1..Len(threads)
    /\ threads[t].pc = "return"
    /\ population' = [population EXCEPT ![t] = threads[t].fit.candidate]
    /\ threads' = [threads EXCEPT ![t].pc = "done"]
    /\ UNCHANGED << pc, cfg, generation, best, error, next_id, sims,
                    pre_selection, probabilities, fnvars, figure, disk, cma >>

NextFitness ==
    \E t \in 1..MaxThreads :
        \/ FitnessSimulate(t)
        \/ PyplotClf(t)
        \/ PyplotPlot(t)
        \/ PyplotSavefig(t)
        \/ FitnessReturn(t)

SpecFitness == InitFitness /\ [][NextFitness]_vars

----------------------------------------------------------------------------
(* Claims about concurrent fitness evaluation (SpecFitness) *)

\* every thread has returned from calculate_fitness
AllReturned == \A t \in 1..Len(threads) : threads[t].pc = "done"

\* the orders in which the candidates can be evaluated one after another
Orders(n) == { o \in [1..n -> 1..n] : \A i, j \in 1..n : o[i] = o[j] => i = j }

(* The candidates evaluated one after another in the order o, from a        *)
(* cleared figure and no file: the first loop of perform_selection.         *)
one_after_another(c, pop, o) ==
    score_population(c, [i \in 1..Len(pop) |-> [pop[o[i]] EXCEPT !.lap_time = None]],
                     1, [i \in 1..Len(pop) |-> 0], << >>, NoFile)

\* C11, first part: calculate_fitness performs no disk I/O.
C11_NoDiskIO == disk = NoFile

(* C11, second part: once every candidate of the generation has been        *)
(* evaluated, whatever the interleaving, the lap times, pyplot's figure and *)
(* the file are those of evaluating the candidates in some order one after  *)
(* another.                                                                 *)
C11_SameAsOneAfterAnother ==
    AllReturned =>
        \E o \in Orders(Len(population)) :
            LET same(seq) ==
                    /\ seq.status = "ok"
                    /\ \A i \in 1..Len(population) :
                          population[o[i]].lap_time = seq.population[i].lap_time
                    /\ figure = seq.figure
                    /\ disk = seq.disk
            IN  same(one_after_another(cfg, population, o))

(* C11: evaluating the fitness of a candidate is independent and            *)
(* side-effect-free: it shares no state with the evaluation of another      *)
(* candidate and performs no disk I/O, so evaluating the candidates of a    *)
(* generation concurrently in any interleaving yields the same lap times    *)
(* and the same external state as evaluating them one after another.        *)
C11_FitnessSideEffectFree == C11_NoDiskIO /\ C11_SameAsOneAfterAnother

----------------------------------------------------------------------------
(* cma_evolutionary_strategy.py: CMAEvolutionaryStrategy, as generate_line  *)
(* uses it: the strategy is constructed, then run.  The constructor never   *)
(* returns: after the constructor of EvolutionaryStrategy it evaluates      *)
(* np.array() without the object to convert, a TypeError.  No instance      *)
(* exists on which generate_population, run (whose body is pass) or         *)
(* _generate_empirical_covariance_matrix could be called.                   *)

\* num_offspring of the EvolutionaryStrategy constructor: the default
DefaultNumOffspring == 50

CMAConfigs ==
    { [BaseConfig(p, DefaultNumOffspring, i) EXCEPT !.track = t,
                                                    !.starting_velocity = v] :
        p \in 1..MaxBudget, i \in 0..MaxBudget, t \in Tracks, v \in { 0, 800 } }

InitCMA ==
    /\ pc = "cma_init"
    /\ cfg \in CMAConfigs
    /\ population = << >>
    /\ generation = 0
    /\ best = NoCandidate
    /\ error = NoError
    /\ next_id = 1
    /\ sims = << >>
    /\ pre_selection = << >>
    /\ probabilities = NoProbabilities
    /\ arg = << >>
    /\ res = NoResult
    /\ IOIdle
    /\ cma = NoCMA

(* CMAEvolutionaryStrategy.__init__: the attributes of EvolutionaryStrategy *)
(* are set, the population to the empty list; np.array() raises TypeError   *)
(* before population_matrix, means or covariance_matrix is bound.           *)
CMAInit ==
    /\ pc = "cma_init"
    /\ population' = << >>
    /\ Raise("TypeError", "CMAEvolutionaryStrategy.__init__")
    /\ UNCHANGED << cfg, generation, best, next_id, sims, pre_selection,
                    probabilities, fnvars, iovars, cma >>

NextCMA == CMAInit

SpecCMA == InitCMA /\ [][NextCMA]_vars

----------------------------------------------------------------------------
(* Claims about CMAEvolutionaryStrategy (SpecCMA) *)

(* C12: in the covariance-adaptation variant the sample mean vector and     *)
(* the empirical covariance matrix are recomputed from the current          *)
(* population in every generation, before that generation's offspring are   *)
(* generated, starting with the seeded population.  The least of it: once   *)
(* the client's construction of the strategy has ended, no exception was    *)
(* raised and the strategy holds a mean vector and a covariance matrix.     *)
C12_StatisticsEveryGeneration ==
    pc # "cma_init" =>
        /\ error = NoError
        /\ cma.means # "unset"
        /\ cma.covariance_matrix # "unset"

====
